---- MODULE Spec2Model ----
(***************************************************************************)
(* A model of the chess clock of src/timer.rs (struct ChessTimer).         *)
(*                                                                         *)
(* The clock is a single-threaded object.  Every public method is one      *)
(* action; the methods that call each other (adjust -> stop -> adjust,     *)
(* switch -> adjust -> stop) are operators that call each other in the     *)
(* same way, on a record holding the fields of the struct.                 *)
(*                                                                         *)
(* Time.  std::time::Instant is a monotonic reading with sub-millisecond   *)
(* resolution; the model counts it in ticks, TicksPerMs ticks to the       *)
(* millisecond, and Duration::as_millis truncates to whole milliseconds.   *)
(* A method reads the wall clock with Instant::now() at entry and again    *)
(* with Instant::elapsed(); time may advance between the two readings      *)
(* (skew).                                                                 *)
(*                                                                         *)
(* Call stack.  The mutual recursion of stop and                           *)
(* adjust_elapsed_time_for_player is followed frame by frame; a call that  *)
(* needs more than MaxStack frames overflows the stack, which aborts the   *)
(* process (crashed).                                                      *)
(***************************************************************************)
EXTENDS Integers, Sequences, FiniteSets, TLC

\* src/timer.rs:4
SUPPORTED_PLAYERS == 2

\* ---- bounds of the model ------------------------------------------------
\* ticks of the wall clock per millisecond
TicksPerMs == 2
\* the wall clock stops advancing here
MaxClock == 3
\* frames the call stack holds
MaxStack == 6
\* manual adjustments are not applied below -MaxBank (banked time)
MaxBank == 1
\* manual adjustments are not applied above MaxOver (count-up clocks)
MaxOver == 2
\* widths of the scaled-down integer types: u32 and i64
UnsignedBits == 4
SignedBits == 6

\* ---- Option<T> ----------------------------------------------------------
None == <<>>
Some(v) == <<v>>
unwrap(o) == o[1]
unwrap_or(o, d) == IF o = None THEN d ELSE o[1]

Min(a, b) == IF a <= b THEN a ELSE b
Max(a, b) == IF a >= b THEN a ELSE b

\* valid player indices, and the indices the model passes (one is out of range)
Players == 0 .. SUPPORTED_PLAYERS - 1
PlayerArgs == 0 .. SUPPORTED_PLAYERS

\* Duration::as_millis of a duration given in ticks
as_millis(ticks) == ticks \div TicksPerMs

\* ---- constructor inputs -------------------------------------------------
\* the arguments of new(): direction, player_maxtime_ms, player_adjust_on_switch_ms
NewArgs == {
    <<"Down", Some(<<1, 2>>), Some(<<1, 0>>)>>,
    <<"Down", None, None>>,
    <<"Up", None, None>> }
\* [T; SUPPORTED_PLAYERS] from a tuple, indexed from 0
array(t) == [p \in Players |-> t[p + 1]]
Callbacks == {"c1"}
\* the deltas of manual adjustments, in milliseconds
Deltas == {-1, 1}
\* advances of the wall clock between two calls, in ticks
Waits == {1, 2}
\* advances of the wall clock between two readings inside one call, in ticks
Skews == {0, 1}

VARIABLES
    timer,        \* the ChessTimer (a record of its fields) or the error of new()
    new_result,   \* "Ok" or "SettingsConflict": what new() returned
    clock,        \* the wall clock, in ticks
    crashed,      \* the process was aborted by a stack overflow
    call,         \* the last call made: its name, arguments and clock readings
    pre,          \* the timer as it was when the last call was entered
    notified,     \* the notifier's invocations during the last call: <<callback, player>>
    ret           \* the value the last call returned

vars == <<timer, new_result, clock, crashed, call, pre, notified, ret>>

\* new() that asks for a maxtime whatever the direction.
new_requires_maxtime(direction, player_maxtime_ms, player_adjust_on_switch_ms) ==
    IF player_maxtime_ms = None
    THEN [ok |-> FALSE,
          timer |-> [SettingsConflict |-> "Down counting timer requires a maxtime"]]
    ELSE [ok |-> TRUE,
          timer |-> [
            started_at |-> None,
            last_player_switch_at |-> None,
            direction |-> direction,
            curr_player_index |-> Some(0),
            last_player_index |-> None,
            player_elapsed_ms |-> [p \in Players |-> 0],
            player_maxtime_ms |-> array(unwrap(player_maxtime_ms)),
            player_adjust_on_switch_ms |->
                IF player_adjust_on_switch_ms = None THEN [p \in Players |-> 0]
                ELSE array(unwrap(player_adjust_on_switch_ms)),
            callback |-> "noop"]]

\* ChessTimer::new
new(direction, player_maxtime_ms, player_adjust_on_switch_ms) ==
    IF player_maxtime_ms = None /\ direction = "Down"
    THEN [ok |-> FALSE,
          timer |-> [SettingsConflict |-> "Down counting timer requires a maxtime"]]
    ELSE [ok |-> TRUE,
          timer |-> [
            started_at |-> None,
            last_player_switch_at |-> None,
            direction |-> direction,
            curr_player_index |-> Some(0),
            last_player_index |-> None,
            player_elapsed_ms |-> [p \in Players |-> 0],
            player_maxtime_ms |->
                IF player_maxtime_ms = None THEN [p \in Players |-> 0]
                ELSE array(unwrap(player_maxtime_ms)),
            player_adjust_on_switch_ms |->
                IF player_adjust_on_switch_ms = None THEN [p \in Players |-> 0]
                ELSE array(unwrap(player_adjust_on_switch_ms)),
            callback |-> "noop"]]

\* The machine a call runs on: the timer, the notifier's log, the stack flag.
Machine(t) == [t |-> t, log |-> <<>>, overflow |-> FALSE]

\* set_callback that keeps a hook already registered.
set_callback_once(m, c) ==
    IF m.t.callback = "noop" THEN [m EXCEPT !.t.callback = c] ELSE m

\* ChessTimer::set_callback
set_callback(m, c) == [m EXCEPT !.t.callback = c]

\* ChessTimer::trigger_callback
trigger_callback(m, player) ==
    [m EXCEPT !.log = Append(@, <<m.t.callback, player>>)]

\* ChessTimer::player_index_supported
player_index_supported(player) == player < SUPPORTED_PLAYERS

\* start() without its early return: a second start() restarts the clock.
start_restarts(m, now) ==
    LET m1 == IF m.t.last_player_index # None
              THEN [m EXCEPT !.t.curr_player_index = Some(unwrap(m.t.last_player_index)),
                             !.t.last_player_index = None]
              ELSE m
    IN [m1 EXCEPT !.t.started_at = Some(now),
                  !.t.last_player_switch_at = Some(now)]

\* start() that charges the time since the last switch timestamp to the
\* current player before it restarts the clock.
start_charging(m, now) ==
    IF m.t.started_at # None THEN m
    ELSE LET m1 == IF m.t.last_player_index # None
                   THEN [m EXCEPT !.t.curr_player_index = Some(unwrap(m.t.last_player_index)),
                                  !.t.last_player_index = None]
                   ELSE m
             c == unwrap(m1.t.curr_player_index)
             idle == IF m.t.last_player_switch_at = None THEN 0
                     ELSE as_millis(now - unwrap(m.t.last_player_switch_at))
         IN [m1 EXCEPT !.t.started_at = Some(now),
                       !.t.last_player_switch_at = Some(now),
                       !.t.player_elapsed_ms[c] = @ + idle]

\* start() that leaves last_player_switch_at as it finds it.
start_keeps_switch_at(m, now) ==
    IF m.t.started_at # None THEN m
    ELSE LET m1 == IF m.t.last_player_index # None
                   THEN [m EXCEPT !.t.curr_player_index = Some(unwrap(m.t.last_player_index)),
                                  !.t.last_player_index = None]
                   ELSE m
         IN [m1 EXCEPT !.t.started_at = Some(now)]

\* ChessTimer::start; now is the reading of Instant::now() at entry
start(m, now) ==
    IF m.t.started_at # None THEN m
    ELSE LET m1 == IF m.t.last_player_index # None
                   THEN [m EXCEPT !.t.curr_player_index = Some(unwrap(m.t.last_player_index)),
                                  !.t.last_player_index = None]
                   ELSE m
         IN [m1 EXCEPT !.t.started_at = Some(now),
                       !.t.last_player_switch_at = Some(now)]

RECURSIVE stop(_, _, _, _)
RECURSIVE adjust_elapsed_time_for_player(_, _, _, _, _, _)

\* stop() that measures the charge from started_at, not from the last switch.
stop_from_start(m, now, later, depth) ==
    IF depth > MaxStack THEN [m EXCEPT !.overflow = TRUE]
    ELSE IF m.t.started_at = None THEN m
    ELSE IF m.t.curr_player_index # None
    THEN LET current_player == unwrap(m.t.curr_player_index)
             benchmark == unwrap(m.t.started_at)
             m1 == adjust_elapsed_time_for_player(
                       m, current_player, as_millis(later - benchmark),
                       later, later, depth + 1)
         IN IF m1.overflow THEN m1
            ELSE [m1 EXCEPT !.t.last_player_switch_at = Some(now),
                            !.t.started_at = None]
    ELSE m

\* stop() whose guard tests the switch timestamp instead of started_at: it
\* charges again on a clock that is already stopped.
stop_when_stopped(m, now, later, depth) ==
    IF depth > MaxStack THEN [m EXCEPT !.overflow = TRUE]
    ELSE IF m.t.last_player_switch_at = None THEN m
    ELSE IF m.t.curr_player_index # None
    THEN LET current_player == unwrap(m.t.curr_player_index)
             benchmark == unwrap(m.t.last_player_switch_at)
             m1 == adjust_elapsed_time_for_player(
                       m, current_player, as_millis(later - benchmark),
                       later, later, depth + 1)
         IN IF m1.overflow THEN m1
            ELSE [m1 EXCEPT !.t.last_player_switch_at = Some(now),
                            !.t.started_at = None]
    ELSE m

\* ChessTimer::stop.  now is the reading of Instant::now() at entry, later the
\* reading inside benchmark.elapsed(); depth is the frame the call runs in.
stop(m, now, later, depth) ==
    IF depth > MaxStack THEN [m EXCEPT !.overflow = TRUE]
    ELSE IF m.t.started_at = None THEN m
    ELSE IF m.t.curr_player_index # None
    THEN LET current_player == unwrap(m.t.curr_player_index)
             benchmark == unwrap_or(m.t.last_player_switch_at, unwrap(m.t.started_at))
             m1 == adjust_elapsed_time_for_player(
                       m, current_player, as_millis(later - benchmark),
                       later, later, depth + 1)
         IN IF m1.overflow THEN m1
            ELSE [m1 EXCEPT !.t.last_player_switch_at = Some(now),
                            !.t.started_at = None]
    ELSE m

\* adjust_elapsed_time_for_player without the clamp of the CountDown branch.
adjust_unclamped(m, player, adjustment_ms, now, later, depth) ==
    IF depth > MaxStack THEN [m EXCEPT !.overflow = TRUE]
    ELSE IF ~player_index_supported(player) THEN m
    ELSE LET elapsed == m.t.player_elapsed_ms[player] + adjustment_ms
             m1 == [m EXCEPT !.t.player_elapsed_ms[player] = elapsed]
         IN IF elapsed >= m.t.player_maxtime_ms[player]
            THEN stop(trigger_callback(m1, player), now, later, depth + 1)
            ELSE m1

\* adjust_elapsed_time_for_player that clamps at maxtime in both directions.
adjust_clamps_both(m, player, adjustment_ms, now, later, depth) ==
    IF depth > MaxStack THEN [m EXCEPT !.overflow = TRUE]
    ELSE IF ~player_index_supported(player) THEN m
    ELSE LET elapsed == Min(m.t.player_maxtime_ms[player],
                            m.t.player_elapsed_ms[player] + adjustment_ms)
             m1 == [m EXCEPT !.t.player_elapsed_ms[player] = elapsed]
         IN IF elapsed >= m.t.player_maxtime_ms[player]
            THEN stop(trigger_callback(m1, player), now, later, depth + 1)
            ELSE m1

\* ChessTimer::adjust_elapsed_time_for_player.  now and later are the readings
\* a stop() called from here takes.
adjust_elapsed_time_for_player(m, player, adjustment_ms, now, later, depth) ==
    IF depth > MaxStack THEN [m EXCEPT !.overflow = TRUE]
    ELSE IF ~player_index_supported(player) THEN m
    ELSE LET elapsed == IF m.t.direction = "Down"
                        THEN Min(m.t.player_maxtime_ms[player],
                                 m.t.player_elapsed_ms[player] + adjustment_ms)
                        ELSE m.t.player_elapsed_ms[player] + adjustment_ms
             m1 == [m EXCEPT !.t.player_elapsed_ms[player] = elapsed]
         IN IF elapsed >= m.t.player_maxtime_ms[player]
            THEN stop(trigger_callback(m1, player), now, later, depth + 1)
            ELSE m1

\* switch_to_player that tests the index only after it has charged the
\* outgoing player.
switch_charges_unchecked(m, player, now, later, depth) ==
    IF depth > MaxStack THEN [m EXCEPT !.overflow = TRUE]
    ELSE LET m1 == IF m.t.last_player_switch_at # None /\ m.t.curr_player_index # None
                   THEN LET current_player == unwrap(m.t.curr_player_index)
                            last_switch == as_millis(later - unwrap(m.t.last_player_switch_at))
                            adjust_on_switch == m.t.player_adjust_on_switch_ms[current_player]
                        IN adjust_elapsed_time_for_player(
                               m, current_player, last_switch - adjust_on_switch,
                               later, later, depth + 1)
                   ELSE m
         IN IF m1.overflow \/ ~player_index_supported(player) THEN m1
            ELSE [m1 EXCEPT !.t.last_player_index = m1.t.curr_player_index,
                            !.t.last_player_switch_at = Some(now),
                            !.t.curr_player_index = Some(player)]

\* switch_to_player without the test of the index.
switch_unchecked(m, player, now, later, depth) ==
    IF depth > MaxStack THEN [m EXCEPT !.overflow = TRUE]
    ELSE LET m1 == IF m.t.last_player_switch_at # None /\ m.t.curr_player_index # None
                   THEN LET current_player == unwrap(m.t.curr_player_index)
                            last_switch == as_millis(later - unwrap(m.t.last_player_switch_at))
                            adjust_on_switch == m.t.player_adjust_on_switch_ms[current_player]
                        IN adjust_elapsed_time_for_player(
                               m, current_player, last_switch - adjust_on_switch,
                               later, later, depth + 1)
                   ELSE m
         IN IF m1.overflow THEN m1
            ELSE [m1 EXCEPT !.t.last_player_index = m1.t.curr_player_index,
                            !.t.last_player_switch_at = Some(now),
                            !.t.curr_player_index = Some(player)]

\* ChessTimer::switch_to_player
switch_to_player(m, player, now, later, depth) ==
    IF depth > MaxStack THEN [m EXCEPT !.overflow = TRUE]
    ELSE IF ~player_index_supported(player) THEN m
    ELSE LET m1 == IF m.t.last_player_switch_at # None /\ m.t.curr_player_index # None
                   THEN LET current_player == unwrap(m.t.curr_player_index)
                            last_switch == as_millis(later - unwrap(m.t.last_player_switch_at))
                            adjust_on_switch == m.t.player_adjust_on_switch_ms[current_player]
                        IN adjust_elapsed_time_for_player(
                               m, current_player, last_switch - adjust_on_switch,
                               later, later, depth + 1)
                   ELSE m
         IN IF m1.overflow THEN m1
            ELSE [m1 EXCEPT !.t.last_player_index = m1.t.curr_player_index,
                            !.t.last_player_switch_at = Some(now),
                            !.t.curr_player_index = Some(player)]

\* switch_to_next_player that does not wrap around after the last player.
switch_to_next_no_wrap(m, now, later, depth) ==
    IF depth > MaxStack THEN [m EXCEPT !.overflow = TRUE]
    ELSE IF m.t.curr_player_index # None
    THEN switch_to_player(m, unwrap(m.t.curr_player_index) + 1, now, later, depth + 1)
    ELSE m

\* ChessTimer::switch_to_next_player
switch_to_next_player(m, now, later, depth) ==
    IF depth > MaxStack THEN [m EXCEPT !.overflow = TRUE]
    ELSE IF m.t.curr_player_index # None
    THEN LET provisional == unwrap(m.t.curr_player_index) + 1
             next == IF provisional >= SUPPORTED_PLAYERS THEN 0 ELSE provisional
         IN switch_to_player(m, next, now, later, depth + 1)
    ELSE m

\* ChessTimer::current_player
current_player(t) == t.curr_player_index

\* ChessTimer::check_elapsed_time_for_player
check_elapsed_time_for_player(t, player) ==
    IF ~player_index_supported(player) THEN None
    ELSE Some(t.player_elapsed_ms[player])

\* ---- integer widths (scaled down) ---------------------------------------
U32_MAX == 2 ^ UnsignedBits - 1
I64_MIN == -(2 ^ (SignedBits - 1))
I64_MAX == 2 ^ (SignedBits - 1) - 1
\* two's complement wrap of an i64 result
wrap_i64(x) == ((x - I64_MIN) % (2 ^ SignedBits)) + I64_MIN
\* i64::abs (wraps at the most negative value)
abs_i64(x) == wrap_i64(IF x < 0 THEN -x ELSE x)
\* `as u32` of an i64: the low bits
as_u32(x) == x % (2 ^ UnsignedBits)
\* u32 addition (wrapping)
add_u32(a, b) == (a + b) % (2 ^ UnsignedBits)

\* ChessTimer::elapsed_to_remaining
elapsed_to_remaining(elapsed, last_remaining) ==
    IF elapsed >= last_remaining THEN 0
    ELSE IF elapsed < 0
    THEN LET max_allowed_timelapse == U32_MAX - last_remaining
         IN IF abs_i64(elapsed) >= max_allowed_timelapse THEN U32_MAX
            ELSE add_u32(as_u32(abs_i64(elapsed)), last_remaining)
    ELSE last_remaining - as_u32(elapsed)

\* ChessTimer::check_remaining_time_for_player
check_remaining_time_for_player(t, player) ==
    LET elapsed == check_elapsed_time_for_player(t, player)
    IN IF elapsed # None
       THEN Some(elapsed_to_remaining(unwrap(elapsed), t.player_maxtime_ms[player]))
       ELSE None

\* ---- the state machine --------------------------------------------------
\* The record of a call: its name, its arguments, the reading of the wall
\* clock at entry (now) and the reading of a later Instant::elapsed() (later).
Call(op, player, delta, cb, skew) ==
    [op |-> op, player |-> player, delta |-> delta, cb |-> cb,
     now |-> clock, later |-> clock + skew]

\* The timer is constructed and the process is alive.
Alive == new_result = "Ok" /\ ~crashed

\* Manual adjustments and switch adjustments stay inside the modelled range.
InRange(t) ==
    \A p \in Players : t.player_elapsed_ms[p] >= -MaxBank

\* The state after a call that ran on machine m and returned r.
Commit(c, m, r) ==
    /\ timer' = m.t
    /\ notified' = m.log
    /\ crashed' = m.overflow
    /\ pre' = timer
    /\ call' = c
    /\ clock' = c.later
    /\ ret' = r
    /\ UNCHANGED new_result

Init ==
    \E args \in NewArgs :
        LET r == new(args[1], args[2], args[3])
        IN /\ timer = r.timer
           /\ new_result = IF r.ok THEN "Ok" ELSE "SettingsConflict"
           /\ clock = 0
           /\ crashed = FALSE
           /\ call = [op |-> "new", player |-> None, delta |-> None, cb |-> None,
                      now |-> 0, later |-> 0]
           /\ pre = r.timer
           /\ notified = <<>>
           /\ ret = None

\* wall-clock time passes between two calls
Wait ==
    /\ Alive
    /\ \E d \in Waits :
        /\ clock + d <= MaxClock
        /\ Commit(Call("wait", None, None, None, d), Machine(timer), None)

SetCallback ==
    /\ Alive
    /\ \E c \in Callbacks :
        Commit(Call("set_callback", None, None, Some(c), 0),
               set_callback(Machine(timer), c), None)

Start ==
    /\ Alive
    /\ Commit(Call("start", None, None, None, 0),
              start(Machine(timer), clock), None)

Stop ==
    /\ Alive
    /\ \E skew \in Skews :
        /\ clock + skew <= MaxClock
        /\ skew > 0 => timer.started_at # None
        /\ Commit(Call("stop", None, None, None, skew),
                  stop(Machine(timer), clock, clock + skew, 1), None)

AdjustElapsedTimeForPlayer ==
    /\ Alive
    /\ \E player \in PlayerArgs, delta \in Deltas, skew \in Skews :
        /\ clock + skew <= MaxClock
        /\ skew > 0 => timer.started_at # None
        /\ player \in Players =>
             /\ timer.player_elapsed_ms[player] + delta >= -MaxBank
             /\ timer.player_elapsed_ms[player] + delta <= MaxOver
        /\ Commit(Call("adjust_elapsed_time_for_player", Some(player), Some(delta), None, skew),
                  adjust_elapsed_time_for_player(
                      Machine(timer), player, delta, clock, clock + skew, 1),
                  None)

SwitchToPlayer ==
    /\ Alive
    /\ \E player \in PlayerArgs, skew \in Skews :
        /\ clock + skew <= MaxClock
        /\ skew > 0 => timer.last_player_switch_at # None
        /\ LET m == switch_to_player(Machine(timer), player, clock, clock + skew, 1)
           IN /\ InRange(m.t)
              /\ Commit(Call("switch_to_player", Some(player), None, None, skew), m, None)

SwitchToNextPlayer ==
    /\ Alive
    /\ \E skew \in Skews :
        /\ clock + skew <= MaxClock
        /\ skew > 0 => timer.last_player_switch_at # None
        /\ LET m == switch_to_next_player(Machine(timer), clock, clock + skew, 1)
           IN /\ InRange(m.t)
              /\ Commit(Call("switch_to_next_player", None, None, None, skew), m, None)

CurrentPlayer ==
    /\ Alive
    /\ Commit(Call("current_player", None, None, None, 0),
              Machine(timer), current_player(timer))

CheckElapsedTimeForPlayer ==
    /\ Alive
    /\ \E player \in PlayerArgs :
        Commit(Call("check_elapsed_time_for_player", Some(player), None, None, 0),
               Machine(timer), check_elapsed_time_for_player(timer, player))

CheckRemainingTimeForPlayer ==
    /\ Alive
    /\ \E player \in PlayerArgs :
        Commit(Call("check_remaining_time_for_player", Some(player), None, None, 0),
               Machine(timer), check_remaining_time_for_player(timer, player))

Next ==
    \/ Wait
    \/ SetCallback
    \/ Start
    \/ Stop
    \/ AdjustElapsedTimeForPlayer
    \/ SwitchToPlayer
    \/ SwitchToNextPlayer
    \/ CurrentPlayer
    \/ CheckElapsedTimeForPlayer
    \/ CheckRemainingTimeForPlayer

Spec == Init /\ [][Next]_vars

\* ---- the constructor over all its arguments -----------------------------
\* the largest time, in milliseconds, passed to new()
MaxNewMs == 1
\* Option<[u32; SUPPORTED_PLAYERS]>: the values of player_maxtime_ms
MaxtimeArgs ==
    {None} \cup {Some(<<a, b>>) : a \in 0 .. MaxNewMs, b \in 0 .. MaxNewMs}
\* Option<[i64; SUPPORTED_PLAYERS]>: the values of player_adjust_on_switch_ms
AdjustArgs ==
    {None} \cup {Some(<<a, b>>) : a \in -MaxNewMs .. MaxNewMs, b \in -MaxNewMs .. MaxNewMs}
Directions == {"Down", "Up"}

\* new() called with any direction, with or without maxtimes and adjustments
InitNew ==
    \E direction \in Directions, maxtime \in MaxtimeArgs, adjust \in AdjustArgs :
        LET r == new(direction, maxtime, adjust)
        IN /\ timer = r.timer
           /\ new_result = IF r.ok THEN "Ok" ELSE "SettingsConflict"
           /\ clock = 0
           /\ crashed = FALSE
           /\ call = [op |-> "new", direction |-> direction,
                      player_maxtime_ms |-> maxtime,
                      player_adjust_on_switch_ms |-> adjust,
                      player |-> None, delta |-> None, cb |-> None,
                      now |-> 0, later |-> 0]
           /\ pre = r.timer
           /\ notified = <<>>
           /\ ret = None

\* the new clock is read through its accessors
NextNew ==
    \/ CurrentPlayer
    \/ CheckElapsedTimeForPlayer
    \/ CheckRemainingTimeForPlayer

SpecNew == InitNew /\ [][NextNew]_vars

\* ---- elapsed_to_remaining over all its arguments ------------------------
\* every i64 and every u32 of the scaled-down widths
ElapsedInputs == I64_MIN .. I64_MAX
RemainingInputs == 0 .. U32_MAX
\* the build profiles: overflow checks on (an overflowing operation panics)
\* or off (it wraps)
Builds == {"debug", "release"}

\* `as u32` of a value that does not fit: the narrowing changes the value
narrowing_lossy(x) == as_u32(x) # x

\* An arithmetic operation of elapsed_to_remaining(elapsed, last_remaining)
\* overflows: elapsed.abs(), the u32 addition or the u32 subtraction.
arithmetic_overflows(elapsed, last_remaining) ==
    IF elapsed >= last_remaining THEN FALSE
    ELSE IF elapsed < 0
    THEN \/ -elapsed > I64_MAX
         \/ /\ abs_i64(elapsed) < U32_MAX - last_remaining
            /\ as_u32(abs_i64(elapsed)) + last_remaining > U32_MAX
    ELSE last_remaining - as_u32(elapsed) < 0

\* An intermediate value of elapsed_to_remaining(elapsed, last_remaining)
\* leaves its width: an arithmetic overflow, or a narrowing that loses bits.
leaves_width(elapsed, last_remaining) ==
    \/ arithmetic_overflows(elapsed, last_remaining)
    \/ /\ elapsed < last_remaining
       /\ IF elapsed < 0
          THEN /\ abs_i64(elapsed) < U32_MAX - last_remaining
               /\ narrowing_lossy(abs_i64(elapsed))
          ELSE narrowing_lossy(elapsed)

\* the arguments of one call of elapsed_to_remaining, not yet made
InitRemaining ==
    \E elapsed \in ElapsedInputs, last_remaining \in RemainingInputs :
        /\ timer = None
        /\ new_result = "NotCalled"
        /\ clock = 0
        /\ crashed = FALSE
        /\ call = [op |-> "arguments", elapsed |-> elapsed,
                   last_remaining |-> last_remaining, build |-> None]
        /\ pre = None
        /\ notified = <<>>
        /\ ret = None

\* the call of elapsed_to_remaining, in either build
ElapsedToRemaining ==
    /\ call.op = "arguments"
    /\ \E build \in Builds :
        LET panics == build = "debug"
                        /\ arithmetic_overflows(call.elapsed, call.last_remaining)
        IN /\ call' = [call EXCEPT !.op = "elapsed_to_remaining", !.build = Some(build)]
           /\ crashed' = panics
           /\ ret' = IF panics THEN None
                     ELSE Some(elapsed_to_remaining(call.elapsed, call.last_remaining))
           /\ UNCHANGED <<timer, new_result, clock, pre, notified>>

NextRemaining == ElapsedToRemaining

SpecRemaining == InitRemaining /\ [][NextRemaining]_vars

\* ---- a clock with two hooks ---------------------------------------------
\* the closures passed to set_callback; the first one registered is c1
Hooks == {"c1", "c2"}

\* a Down clock, both players with the same maxtime, no switch adjustment
InitHook ==
    LET r == new("Down", Some(<<1, 1>>), None)
    IN /\ timer = r.timer
       /\ new_result = "Ok"
       /\ clock = 0
       /\ crashed = FALSE
       /\ call = [op |-> "new", player |-> None, delta |-> None, cb |-> None,
                  now |-> 0, later |-> 0]
       /\ pre = r.timer
       /\ notified = <<>>
       /\ ret = None

SetCallbackHook ==
    /\ Alive
    /\ \E c \in Hooks :
        /\ timer.callback = "noop" => c = "c1"
        /\ Commit(Call("set_callback", None, None, Some(c), 0),
                  set_callback(Machine(timer), c), None)

NextHook ==
    \/ Wait
    \/ SetCallbackHook
    \/ Start
    \/ Stop
    \/ AdjustElapsedTimeForPlayer

SpecHook == InitHook /\ [][NextHook]_vars

\* ---- board coordinates (src/board/coordinate.rs) -------------------------
\* the largest x and y passed to CoordinateXY::new (one past the board)
MaxXY == 8

\* impl From<CoordinateXY> for CoordinateLinear
xy_to_linear(coord) == [index |-> coord.x + 8 * coord.y]

\* impl From<CoordinateXY> for CoordinateAlgebraic: the lookup tables
file_lut == <<"a", "b", "c", "d", "e", "f", "g", "h">>
rank_lut == <<"1", "2", "3", "4", "5", "6", "7", "8">>
\* the indexing of the lookup tables is in bounds (it panics otherwise)
lut_in_bounds(coord) == coord.x < Len(file_lut) /\ coord.y < Len(rank_lut)
xy_to_algebraic(coord) ==
    [file |-> file_lut[coord.x + 1], rank |-> rank_lut[coord.y + 1]]

\* linear_to_xy with the quotient and the remainder exchanged
linear_to_yx(coord) == [x |-> coord.index \div 8, y |-> coord.index % 8]

\* impl From<CoordinateLinear> for CoordinateXY
linear_to_xy(coord) == [x |-> coord.index % 8, y |-> coord.index \div 8]

\* `as u8` of a char of the board
as_u8(ch) ==
    CASE ch = "a" -> 97 [] ch = "b" -> 98 [] ch = "c" -> 99 [] ch = "d" -> 100
      [] ch = "e" -> 101 [] ch = "f" -> 102 [] ch = "g" -> 103 [] ch = "h" -> 104
      [] ch = "1" -> 49 [] ch = "2" -> 50 [] ch = "3" -> 51 [] ch = "4" -> 52
      [] ch = "5" -> 53 [] ch = "6" -> 54 [] ch = "7" -> 55 [] ch = "8" -> 56

\* impl From<CoordinateAlgebraic> for CoordinateXY
algebraic_to_xy(coord) ==
    [x |-> as_u8(coord.file) - 97, y |-> as_u8(coord.rank) - 49]

\* impl From<CoordinateLinear> for CoordinateAlgebraic
linear_to_algebraic(coord) == xy_to_algebraic(linear_to_xy(coord))

\* CoordinateXY::new(x, y), nothing converted yet
InitCoordinate ==
    \E x \in 0 .. MaxXY, y \in 0 .. MaxXY :
        /\ timer = None
        /\ new_result = "NotCalled"
        /\ clock = 0
        /\ crashed = FALSE
        /\ call = [op |-> "CoordinateXY::new", xy |-> [x |-> x, y |-> y],
                   linear |-> None, algebraic |-> None, back |-> None]
        /\ pre = None
        /\ notified = <<>>
        /\ ret = None

\* CoordinateLinear::from(xy)
XYToLinear ==
    /\ call.op = "CoordinateXY::new"
    /\ call' = [call EXCEPT !.op = "CoordinateLinear::from",
                            !.linear = Some(xy_to_linear(call.xy))]
    /\ UNCHANGED <<timer, new_result, clock, crashed, pre, notified, ret>>

\* CoordinateAlgebraic::from(linear)
LinearToAlgebraic ==
    /\ call.op = "CoordinateLinear::from"
    /\ LET panics == ~lut_in_bounds(linear_to_xy(unwrap(call.linear)))
       IN /\ crashed' = panics
          /\ call' = [call EXCEPT
                        !.op = "CoordinateAlgebraic::from",
                        !.algebraic =
                            IF panics THEN None
                            ELSE Some(linear_to_algebraic(unwrap(call.linear)))]
    /\ UNCHANGED <<timer, new_result, clock, pre, notified, ret>>

\* CoordinateXY::from(algebraic)
AlgebraicToXY ==
    /\ call.op = "CoordinateAlgebraic::from"
    /\ ~crashed
    /\ call' = [call EXCEPT !.op = "CoordinateXY::from",
                            !.back = Some(algebraic_to_xy(unwrap(call.algebraic)))]
    /\ UNCHANGED <<timer, new_result, clock, crashed, pre, notified, ret>>

NextCoordinate ==
    \/ XYToLinear
    \/ LinearToAlgebraic
    \/ AlgebraicToXY

SpecCoordinate == InitCoordinate /\ [][NextCoordinate]_vars

\* ---- one start / switches / stop cycle without switch adjustments -------
\* a Down clock with maxtimes no charge of the cycle reaches, no adjustments
InitCycle ==
    LET r == new("Down", Some(<<4, 4>>), None)
    IN /\ timer = r.timer
       /\ new_result = "Ok"
       /\ clock = 0
       /\ crashed = FALSE
       /\ call = [op |-> "new", player |-> None, delta |-> None, cb |-> None,
                  now |-> 0, later |-> 0]
       /\ pre = r.timer
       /\ notified = <<>>
       /\ ret = None

\* the first start() of the clock
CycleStart == timer.last_player_switch_at = None /\ Start
\* a switch while the clock runs
CycleSwitchToPlayer == timer.started_at # None /\ SwitchToPlayer
CycleSwitchToNextPlayer == timer.started_at # None /\ SwitchToNextPlayer

NextCycle ==
    \/ Wait
    \/ CycleStart
    \/ CycleSwitchToPlayer
    \/ CycleSwitchToNextPlayer
    \/ Stop

SpecCycle == InitCycle /\ [][NextCycle]_vars

\* ---- what the claims speak about ---------------------------------------
\* the last call was `op`, made on a constructed timer
Called(op) == new_result = "Ok" /\ call.op = op
\* the last call was `op` with a valid player index
CalledFor(op) == Called(op) /\ player_index_supported(unwrap(call.player))
\* the players the notifier was invoked with during the last call, in order
NotifiedPlayers == [i \in 1 .. Len(notified) |-> notified[i][2]]

\* C1. Clamp law: on a CountDown clock no player's elapsed_ms ever exceeds
\* that player's max_time_ms, whatever calls were made and whatever time passed.
C1_ClampLaw ==
    (new_result = "Ok" /\ timer.direction = "Down") =>
        \A p \in Players : timer.player_elapsed_ms[p] <= timer.player_maxtime_ms[p]

\* C1 witness: a manual adjustment that would have taken a CountDown player
\* past the cap has been applied and left the player exactly at the cap.
C1_Witness ==
    /\ CalledFor("adjust_elapsed_time_for_player")
    /\ timer.direction = "Down"
    /\ LET p == unwrap(call.player)
       IN /\ pre.player_elapsed_ms[p] + unwrap(call.delta) > timer.player_maxtime_ms[p]
          /\ timer.player_elapsed_ms[p] = timer.player_maxtime_ms[p]

\* C2. A call adjust_elapsed_time_for_player(p, d) on a CountDown clock after
\* which elapsed_ms[p] >= max_time_ms[p] returns, with the clock stopped and
\* current_player as it was before the call.
C2_ExpiryStopsClock ==
    (/\ CalledFor("adjust_elapsed_time_for_player")
     /\ timer.direction = "Down"
     /\ timer.player_elapsed_ms[unwrap(call.player)]
            >= timer.player_maxtime_ms[unwrap(call.player)])
    => (/\ ~crashed
        /\ timer.started_at = None
        /\ timer.curr_player_index = pre.curr_player_index)

\* C3. During one call adjust_elapsed_time_for_player(p, d) the notifier is
\* invoked exactly once, with p, if elapsed_ms[p] >= max_time_ms[p] after the
\* update, and not at all otherwise.
C3_NotifiedOncePerCall ==
    CalledFor("adjust_elapsed_time_for_player") =>
        LET p == unwrap(call.player)
        IN NotifiedPlayers =
             IF timer.player_elapsed_ms[p] >= timer.player_maxtime_ms[p]
             THEN <<p>> ELSE <<>>

\* C4. Every call returns after a bounded number of steps: no call runs the
\* stack out of frames.
C4_EveryCallReturns == ~crashed

\* C5. Restart preserves player identity: after stop() and then start(),
\* current_player is what it was immediately before the stop().
C5_RestartKeepsPlayer ==
    [][(Called("stop") /\ pre.started_at # None /\ ~crashed /\ call'.op = "start")
         => timer'.curr_player_index = pre.curr_player_index]_vars

\* C6. switch_to_player(q) with a valid q on a running clock returns having
\* changed elapsed_ms of the outgoing (current) player by exactly the whole
\* milliseconds since last_switch_at (read at some moment of the call) minus
\* the outgoing player's switch adjustment, clamped at max_time_ms on a
\* CountDown clock, and having left every other player's elapsed_ms alone.
C6_SwitchChargesOutgoing ==
    (CalledFor("switch_to_player") /\ pre.started_at # None) =>
        LET out == unwrap(pre.curr_player_index)
        IN /\ ~crashed
           /\ \E t \in call.now .. call.later :
                LET interval == as_millis(t - unwrap(pre.last_player_switch_at))
                    charged == pre.player_elapsed_ms[out] + interval
                                   - pre.player_adjust_on_switch_ms[out]
                IN timer.player_elapsed_ms[out] =
                     IF pre.direction = "Down"
                     THEN Min(pre.player_maxtime_ms[out], charged) ELSE charged
           /\ \A p \in Players \ {out} :
                timer.player_elapsed_ms[p] = pre.player_elapsed_ms[p]

\* The charge of the last call, a stop() entered on a running clock: the whole
\* milliseconds between last_switch_at and the reading taken inside the call.
StopCharge == as_millis(call.later - unwrap(pre.last_player_switch_at))
\* stop() was called on a running clock and its charge keeps the current
\* player below max_time_ms.
StoppedBelowMax ==
    /\ Called("stop")
    /\ pre.started_at # None
    /\ pre.player_elapsed_ms[unwrap(pre.curr_player_index)] + StopCharge
           < pre.player_maxtime_ms[unwrap(pre.curr_player_index)]
\* What such a stop() does to the clock.
StopEffect ==
    LET c == unwrap(pre.curr_player_index)
    IN /\ ~crashed
       /\ timer.player_elapsed_ms[c] = pre.player_elapsed_ms[c] + StopCharge
       /\ \A p \in Players \ {c} : timer.player_elapsed_ms[p] = pre.player_elapsed_ms[p]
       /\ timer.curr_player_index = pre.curr_player_index
       /\ timer.last_player_switch_at = Some(call.now)
       /\ timer.started_at = None
\* The stop() ends a start / wait / stop cycle: no switch since the start().
EndsCycle ==
    /\ pre.last_player_index = None
    /\ pre.last_player_switch_at = pre.started_at

\* C7 as claimed. stop() on a running clock whose charge stays below max adds
\* the time since last_switch_at to the current player only, keeps
\* current_player, sets last_switch_at to now and clears running_since; and
\* every start / wait d > 0 / stop cycle strictly increases the current
\* player's elapsed_ms.
C7_StopChargeStrict ==
    StoppedBelowMax =>
        /\ StopEffect
        /\ (EndsCycle /\ call.now > unwrap(pre.started_at)) =>
             timer.player_elapsed_ms[unwrap(pre.curr_player_index)]
                 > pre.player_elapsed_ms[unwrap(pre.curr_player_index)]

\* C7 as amended. The same effect, the charge being the whole milliseconds of
\* the interval; a start / wait d / stop cycle never decreases the current
\* player's elapsed_ms and strictly increases it when d is at least one
\* millisecond.
C7_StopChargeWholeMs ==
    StoppedBelowMax =>
        /\ StopEffect
        /\ timer.player_elapsed_ms[unwrap(pre.curr_player_index)]
               >= pre.player_elapsed_ms[unwrap(pre.curr_player_index)]
        /\ (EndsCycle /\ as_millis(call.now - unwrap(pre.started_at)) >= 1) =>
             timer.player_elapsed_ms[unwrap(pre.curr_player_index)]
                 > pre.player_elapsed_ms[unwrap(pre.curr_player_index)]

\* C7 witness: a start / wait / stop cycle of at least one millisecond has
\* been stopped below max and has charged the current player.
C7_Witness ==
    /\ StoppedBelowMax
    /\ EndsCycle
    /\ as_millis(call.now - unwrap(pre.started_at)) >= 1
    /\ timer.player_elapsed_ms[unwrap(pre.curr_player_index)] >= 1

\* the calls that must not touch the accumulators
ReadOnlyCalls ==
    {"start", "set_callback", "current_player", "check_elapsed_time_for_player",
     "check_remaining_time_for_player", "wait"}

\* C8. start(), set_callback, the three accessors and the passage of time
\* leave every player's elapsed_ms unchanged, so the elapsed and remaining
\* time read for each player stay what they were.
C8_ElapsedFrame ==
    (new_result = "Ok" /\ call.op \in ReadOnlyCalls) =>
        /\ ~crashed
        /\ timer.player_elapsed_ms = pre.player_elapsed_ms
        /\ \A p \in Players :
             /\ check_elapsed_time_for_player(timer, p)
                    = check_elapsed_time_for_player(pre, p)
             /\ check_remaining_time_for_player(timer, p)
                    = check_remaining_time_for_player(pre, p)

\* C8 witness: start() has restarted a stopped clock some time after the
\* stop, with time already charged to a player.
C8_Witness ==
    /\ Called("start")
    /\ pre.started_at = None
    /\ pre.last_player_switch_at # None
    /\ call.now > unwrap(pre.last_player_switch_at)
    /\ timer.started_at = Some(call.now)
    /\ \E p \in Players : timer.player_elapsed_ms[p] > 0

\* C9. start() on a running clock changes no field of the clock, whatever
\* time has passed since the first start(); and the stop() or the
\* switch_to_player() that follows it charges the whole interval since the
\* switch timestamp the clock had before that start().
C9_StartIdempotent ==
    /\ []((Called("start") /\ pre.started_at # None) =>
             (timer = pre /\ notified = <<>> /\ ~crashed))
    /\ [][(Called("start") /\ pre.started_at # None /\ call'.op = "stop" /\ ~crashed')
            => LET c == unwrap(pre.curr_player_index)
               IN timer'.player_elapsed_ms[c] =
                    pre.player_elapsed_ms[c]
                      + as_millis(call'.later - unwrap(pre.last_player_switch_at))]_vars
    /\ [][(/\ Called("start") /\ pre.started_at # None
           /\ call'.op = "switch_to_player" /\ ~crashed'
           /\ player_index_supported(unwrap(call'.player)))
            => LET c == unwrap(pre.curr_player_index)
               IN timer'.player_elapsed_ms[c] =
                    pre.player_elapsed_ms[c]
                      + as_millis(call'.later - unwrap(pre.last_player_switch_at))
                      - pre.player_adjust_on_switch_ms[c]]_vars

\* C9 witness: a second start() was made on a running clock after time had
\* passed since the first.
C9_Witness ==
    /\ Called("start")
    /\ pre.started_at # None
    /\ call.now > unwrap(pre.started_at)
    /\ timer.started_at = pre.started_at

\* C10. stop() on a clock that is not running changes no field of the clock,
\* charges nothing and does not invoke the notifier.
C10_StopIdempotent ==
    (Called("stop") /\ pre.started_at = None) =>
        (timer = pre /\ notified = <<>> /\ ~crashed)

\* C10 witness: stop() was called on a clock stopped earlier, after time had
\* passed since that stop.
C10_Witness ==
    /\ Called("stop")
    /\ pre.started_at = None
    /\ pre.last_player_switch_at # None
    /\ call.now > unwrap(pre.last_player_switch_at)

\* the last call was `op` with a player index outside [0, SUPPORTED_PLAYERS)
CalledOutOfRange(op) == Called(op) /\ ~player_index_supported(unwrap(call.player))

\* C11. With a player index outside [0, SUPPORTED_PLAYERS),
\* adjust_elapsed_time_for_player and switch_to_player return having changed
\* no field of the clock (no charge, no change of current player, last player
\* or switch timestamp, no stop) and without invoking the notifier, and
\* check_elapsed_time_for_player and check_remaining_time_for_player return
\* None; none of them aborts.
C11_OutOfRangeIgnored ==
    /\ (CalledOutOfRange("adjust_elapsed_time_for_player")
          \/ CalledOutOfRange("switch_to_player"))
         => (timer = pre /\ notified = <<>> /\ ~crashed)
    /\ (CalledOutOfRange("check_elapsed_time_for_player")
          \/ CalledOutOfRange("check_remaining_time_for_player"))
         => (ret = None /\ timer = pre /\ ~crashed)

\* C11 witness: switch_to_player was called with an index out of range on a
\* running clock, at least one millisecond after the last switch timestamp, so
\* that a valid switch would have charged the current player.
C11_Witness ==
    /\ CalledOutOfRange("switch_to_player")
    /\ pre.started_at # None
    /\ as_millis(call.now - unwrap(pre.last_player_switch_at)) >= 1
    /\ timer.started_at # None

\* C12. new(direction, player_maxtime_ms, player_adjust_on_switch_ms) fails
\* with SettingsConflict exactly when the direction is Down and no maxtime is
\* given; otherwise it returns a stopped clock of that direction with no
\* timestamp set, current player 0, no last player, every elapsed_ms 0, the
\* maxtimes as given (all 0 when absent) and the switch adjustments as given
\* (all 0 when absent).
C12_NewContract ==
    call.op = "new" =>
        /\ new_result = "SettingsConflict"
             <=> (call.direction = "Down" /\ call.player_maxtime_ms = None)
        /\ new_result = "SettingsConflict" =>
             timer.SettingsConflict = "Down counting timer requires a maxtime"
        /\ new_result = "Ok" =>
             /\ timer.direction = call.direction
             /\ timer.started_at = None
             /\ timer.last_player_switch_at = None
             /\ timer.curr_player_index = Some(0)
             /\ timer.last_player_index = None
             /\ \A p \in Players :
                  /\ timer.player_elapsed_ms[p] = 0
                  /\ timer.player_maxtime_ms[p] =
                       IF call.player_maxtime_ms = None THEN 0
                       ELSE unwrap(call.player_maxtime_ms)[p + 1]
                  /\ timer.player_adjust_on_switch_ms[p] =
                       IF call.player_adjust_on_switch_ms = None THEN 0
                       ELSE unwrap(call.player_adjust_on_switch_ms)[p + 1]

\* C12 witness: new() has returned an Up clock built without a maxtime and
\* with switch adjustments, one of them negative.
C12_Witness ==
    /\ call.op = "new"
    /\ new_result = "Ok"
    /\ call.direction = "Up"
    /\ call.player_maxtime_ms = None
    /\ call.player_adjust_on_switch_ms = Some(<<-MaxNewMs, MaxNewMs>>)
    /\ timer.player_adjust_on_switch_ms[0] = -MaxNewMs
    /\ timer.player_maxtime_ms[1] = 0

\* C13. elapsed_to_remaining(e, r) returns min(U32_MAX, max(0, r - e)), the
\* difference taken over the unbounded integers, for every i64 e and every
\* u32 r: 0 when e >= r, r + |e| saturated at U32_MAX when e < 0, r - e
\* otherwise.
C13_MatchesReference ==
    call.op = "elapsed_to_remaining" =>
        ret = Some(Min(U32_MAX, Max(0, call.last_remaining - call.elapsed)))

\* C14. elapsed_to_remaining(e, r) never overflows or wraps: for every i64 e,
\* the most negative included, and every u32 r, the call returns, in either
\* build, a u32, and the absolute value of e, its narrowing to u32, the sum
\* |e| + r and the difference r - e all stay inside their widths.
C14_NoOverflow ==
    call.op = "elapsed_to_remaining" =>
        /\ ~crashed
        /\ ~leaves_width(call.elapsed, call.last_remaining)
        /\ ret # None /\ unwrap(ret) \in 0 .. U32_MAX

\* C15. In every state of a constructed clock, whatever calls were made, with
\* valid or invalid player indices, current player is set and is a valid
\* index, and last player, when set, is a valid index.
C15_CurrentPlayerValid ==
    new_result = "Ok" =>
        /\ timer.curr_player_index # None
        /\ unwrap(timer.curr_player_index) \in Players
        /\ timer.last_player_index # None =>
             unwrap(timer.last_player_index) \in Players

\* C15 witness: switch_to_player was called with an index out of range on a
\* clock that had switched to player 1 before, and player 1 is still current
\* and player 0 still the last player.
C15_Witness ==
    /\ CalledOutOfRange("switch_to_player")
    /\ pre.curr_player_index = Some(1)
    /\ timer.curr_player_index = Some(1)
    /\ timer.last_player_index = Some(0)

\* what switch_to_player((current player + 1) mod SUPPORTED_PLAYERS) does to
\* the clock the last call was entered on, with the clock readings of that call
SwitchToSuccessor ==
    switch_to_player(Machine(pre),
                     (unwrap(pre.curr_player_index) + 1) % SUPPORTED_PLAYERS,
                     call.now, call.later, 1)

\* C16. switch_to_next_player() has exactly the effect of
\* switch_to_player((current player + 1) mod SUPPORTED_PLAYERS) on the whole
\* clock (the same fields, the same notifications, the same abort); when it
\* returns, current player is the other player, and two consecutive calls that
\* return bring current player back to what it was.
C16_NextIsSuccessor ==
    /\ [](Called("switch_to_next_player") =>
            /\ crashed = SwitchToSuccessor.overflow
            /\ ~crashed =>
                 /\ timer = SwitchToSuccessor.t
                 /\ notified = SwitchToSuccessor.log
                 /\ timer.curr_player_index
                      = Some(1 - unwrap(pre.curr_player_index)))
    /\ [][(/\ Called("switch_to_next_player") /\ ~crashed
           /\ call'.op = "switch_to_next_player" /\ ~crashed')
            => timer'.curr_player_index = pre.curr_player_index]_vars

\* C16 witness: switch_to_next_player was called on a running clock whose
\* current player was the last index, at least one millisecond after the last
\* switch, and it returned with player 0 current and player 1 charged.
C16_Witness ==
    /\ Called("switch_to_next_player")
    /\ ~crashed
    /\ pre.started_at # None
    /\ pre.curr_player_index = Some(SUPPORTED_PLAYERS - 1)
    /\ timer.curr_player_index = Some(0)
    /\ timer.player_elapsed_ms[1] > pre.player_elapsed_ms[1]

\* elapsed_ms of player p of clock t after a charge of d milliseconds
Charged(t, p, d) ==
    IF t.direction = "Down"
    THEN Min(t.player_maxtime_ms[p], t.player_elapsed_ms[p] + d)
    ELSE t.player_elapsed_ms[p] + d
\* the whole milliseconds between the switch timestamp the last call found
\* and the switch timestamp it stored
StoredInterval ==
    as_millis(unwrap(timer.last_player_switch_at) - unwrap(pre.last_player_switch_at))

\* C17. start, stop and switch_to_player use one reading of the wall clock,
\* taken at entry, for the timestamps they store and for the interval they
\* charge: start() stores the entry reading in both timestamps, and the
\* interval a returning stop() or switch_to_player() charges is the new
\* last_player_switch_at minus the previous one, also when time advances
\* during the call.
C17_SingleClockReading ==
    /\ (Called("start") /\ pre.started_at = None) =>
         /\ timer.started_at = Some(call.now)
         /\ timer.last_player_switch_at = Some(call.now)
    /\ (Called("stop") /\ pre.started_at # None /\ ~crashed) =>
         LET c == unwrap(pre.curr_player_index)
         IN /\ timer.last_player_switch_at = Some(call.now)
            /\ timer.player_elapsed_ms[c] = Charged(pre, c, StoredInterval)
    /\ (CalledFor("switch_to_player") /\ pre.last_player_switch_at # None /\ ~crashed) =>
         LET c == unwrap(pre.curr_player_index)
         IN /\ timer.last_player_switch_at = Some(call.now)
            /\ timer.player_elapsed_ms[c] =
                 Charged(pre, c, StoredInterval - pre.player_adjust_on_switch_ms[c])

\* the calls that charge a player
ChargingCalls ==
    {"stop", "adjust_elapsed_time_for_player", "switch_to_player",
     "switch_to_next_player"}

\* C18. On an Up clock no call invokes the notifier, and no charge stops the
\* clock as a side effect: every call returns with an empty notification log,
\* and a running Up clock is still running after an adjustment or a switch.
C18_NoExpiryCountingUp ==
    (new_result = "Ok" /\ timer.direction = "Up") =>
        /\ notified = <<>>
        /\ ~crashed
        /\ (call.op \in ChargingCalls \ {"stop"} /\ pre.started_at # None) =>
             timer.started_at # None

\* C19. adjust_elapsed_time_for_player(p, d) with a valid p on a clock that is
\* not running, in particular one never started, sets elapsed_ms[p] to
\* min(maxtime[p], elapsed_ms[p] + d) on a Down clock and to elapsed_ms[p] + d
\* on an Up clock, for positive and negative d, and changes no other field of
\* the clock; check_elapsed_time_for_player(p) called next returns that value.
C19_ManualAdjustment ==
    /\ []((CalledFor("adjust_elapsed_time_for_player") /\ pre.started_at = None) =>
            LET p == unwrap(call.player)
            IN /\ ~crashed
               /\ timer = [pre EXCEPT !.player_elapsed_ms[p] =
                                          Charged(pre, p, unwrap(call.delta))]
               /\ check_elapsed_time_for_player(timer, p)
                    = Some(Charged(pre, p, unwrap(call.delta))))
    /\ [][(/\ CalledFor("adjust_elapsed_time_for_player") /\ pre.started_at = None
           /\ call'.op = "check_elapsed_time_for_player" /\ call'.player = call.player)
            => ret' = Some(Charged(pre, unwrap(call.player), unwrap(call.delta)))]_vars

\* C19 witness: a Down clock that was never started, with a player at
\* maxtime after a positive adjustment, has had a negative adjustment applied
\* to the other player, which left that player with negative elapsed time.
C19_Witness ==
    /\ CalledFor("adjust_elapsed_time_for_player")
    /\ pre.direction = "Down"
    /\ pre.started_at = None
    /\ pre.last_player_switch_at = None
    /\ unwrap(call.delta) < 0
    /\ timer.player_elapsed_ms[unwrap(call.player)] < 0
    /\ \E q \in Players : timer.player_elapsed_ms[q] = timer.player_maxtime_ms[q]

\* the hooks the notifier invoked during the last call, in order
NotifiedHooks == [i \in 1 .. Len(notified) |-> notified[i][1]]

\* C20. The hook is a single slot.  new() registers a no-op; set_callback(c)
\* stores c and changes no other field, and no other call changes the slot;
\* every invocation of the notifier during a call invokes the hook registered
\* when the call was entered.  Hence after set_callback(c2) has replaced c1,
\* the calls that follow invoke c2 only, and before any set_callback an expiry
\* invokes the no-op.
C20_SingleSlotHook ==
    /\ [](new_result = "Ok" =>
            /\ Called("new") => timer.callback = "noop"
            /\ Called("set_callback") =>
                 (timer = [pre EXCEPT !.callback = unwrap(call.cb)] /\ notified = <<>>)
            /\ ~Called("set_callback") => timer.callback = pre.callback
            /\ \A i \in 1 .. Len(notified) : NotifiedHooks[i] = pre.callback)
    /\ [][(/\ Called("set_callback") /\ pre.callback = "c1" /\ call.cb = Some("c2")
           /\ call'.op # "set_callback")
            => \A i \in 1 .. Len(notified') : notified'[i][1] = "c2"]_vars

\* C20 witness: the hook c2, which was registered on top of c1, has been
\* invoked once by an expiry on a stopped clock, and c1 has not.
C20_Witness ==
    /\ CalledFor("adjust_elapsed_time_for_player")
    /\ pre.callback = "c2"
    /\ pre.started_at = None
    /\ ~crashed
    /\ notified = <<<<"c2", unwrap(call.player)>>>>

\* the coordinate the conversions started from is a square of the board
OnBoard == call.xy.x <= 7 /\ call.xy.y <= 7

\* C21. For every square (x, y) of the board, 0 <= x, y <= 7: XY -> Linear
\* gives the index x + 8*y, Linear -> Algebraic gives the file 'a' + x and the
\* rank '1' + y, and Algebraic -> XY gives (x, y) back, so the three
\* conversions in a row are the identity; none of them panics.
C21_CoordinateRoundTrip ==
    OnBoard =>
        /\ ~crashed
        /\ call.linear # None =>
             unwrap(call.linear).index = call.xy.x + 8 * call.xy.y
        /\ call.algebraic # None =>
             /\ as_u8(unwrap(call.algebraic).file) = as_u8("a") + call.xy.x
             /\ as_u8(unwrap(call.algebraic).rank) = as_u8("1") + call.xy.y
        /\ call.back # None => unwrap(call.back) = call.xy
        /\ call.op = "CoordinateXY::from" => call.back # None

\* C21 witness: the square g8 = (6, 7) has gone through the three
\* conversions: index 62, file g and rank 8, and (6, 7) again.
C21_Witness ==
    /\ call.op = "CoordinateXY::from"
    /\ call.xy = [x |-> 6, y |-> 7]
    /\ call.linear = Some([index |-> 62])
    /\ call.algebraic = Some([file |-> "g", rank |-> "8"])
    /\ call.back = Some([x |-> 6, y |-> 7])

\* C22. switch_to_player(q) with a valid q returns from every reachable
\* clock, running or stopped, with or without an expiry triggered by its
\* charge, q current or not, and then last player is the player that was
\* current at entry, current player is q, and last_player_switch_at is the
\* reading taken at entry of the call, not earlier than its previous value.
C22_SwitchPostState ==
    CalledFor("switch_to_player") =>
        /\ ~crashed
        /\ timer.last_player_index = pre.curr_player_index
        /\ timer.curr_player_index = call.player
        /\ timer.last_player_switch_at = Some(call.now)
        /\ pre.last_player_switch_at # None =>
             unwrap(timer.last_player_switch_at) >= unwrap(pre.last_player_switch_at)

\* the last call was a switch (to a valid player) that returned
Switched ==
    /\ CalledFor("switch_to_player") \/ Called("switch_to_next_player")
    /\ ~crashed

\* C23. Time that passes while the clock is stopped is charged to no player:
\* a start() on a stopped clock leaves every elapsed_ms as it was, and a switch
\* made on a stopped clock that has a switch timestamp changes elapsed_ms of
\* the outgoing player by at most minus that player's switch adjustment and
\* leaves the other players alone.
C23_StoppedTimeNotCharged ==
    /\ (Called("start") /\ pre.started_at = None) =>
         timer.player_elapsed_ms = pre.player_elapsed_ms
    /\ (Switched /\ pre.started_at = None /\ pre.last_player_switch_at # None) =>
         LET c == unwrap(pre.curr_player_index)
         IN /\ timer.player_elapsed_ms[c] - pre.player_elapsed_ms[c]
                  <= -pre.player_adjust_on_switch_ms[c]
            /\ \A p \in Players \ {c} :
                 timer.player_elapsed_ms[p] = pre.player_elapsed_ms[p]

\* the sum of elapsed_ms over the players below n
RECURSIVE SumBelow(_, _)
SumBelow(elapsed, n) ==
    IF n = 0 THEN 0 ELSE elapsed[n - 1] + SumBelow(elapsed, n - 1)
TotalElapsed(t) == SumBelow(t.player_elapsed_ms, SUPPORTED_PLAYERS)

\* C24. Conservation of charged time.  On a clock without switch adjustments,
\* started once with every elapsed_ms at 0, switched any number of times and
\* then stopped, no player having reached maxtime: the sum of elapsed_ms over
\* the players is the wall-clock time, in whole milliseconds, between the
\* start() and the stop(), also when time advances between the clock readings
\* of one call.
C24_ChargedTimeConserved ==
    (/\ Called("stop")
     /\ pre.started_at # None
     /\ ~crashed
     /\ \A p \in Players :
          /\ timer.player_adjust_on_switch_ms[p] = 0
          /\ timer.player_elapsed_ms[p] < timer.player_maxtime_ms[p])
    => TotalElapsed(timer) = as_millis(call.now - unwrap(pre.started_at))

\* C25. In every state in which the clock is running, last_player_switch_at
\* is set and is not earlier than started_at; so stop() never falls back to
\* started_at for a missing switch timestamp.
C25_RunningHasSwitchTimestamp ==
    (new_result = "Ok" /\ timer.started_at # None) =>
        /\ timer.last_player_switch_at # None
        /\ unwrap(timer.last_player_switch_at) >= unwrap(timer.started_at)

\* C25 witness: a clock started some time after its construction has been
\* switched while running, some time after the start.
C25_Witness ==
    /\ CalledFor("switch_to_player")
    /\ ~crashed
    /\ pre.started_at # None
    /\ unwrap(pre.started_at) > 0
    /\ timer.started_at = pre.started_at
    /\ unwrap(timer.last_player_switch_at) > unwrap(timer.started_at)

====
